---------------------------- MODULE Spec2Model ----------------------------
(***************************************************************************)
(* Model of post-processing/post_processing.py: the PostProcessing         *)
(* pipeline (apply_df_types, sort_df, filter_df, check_filtered_row_count, *)
(* transform_df_data, plot_generic) run by main over one dataframe.        *)
(*                                                                         *)
(* The dataframe has the columns x (integer x-axis), series (text) and y   *)
(* (float64 y-axis, NaN allowed).  A float is an exact rational num/den;   *)
(* NaN is the cell with null = TRUE.                                       *)
(***************************************************************************)
EXTENDS Integers, Sequences, FiniteSets, TLC

\* Largest number of rows of a dataframe read from the perflogs.
MaxRows == 3

XVals == {1, 2}
SeriesVals == {"A", "B"}
YVals == {2}

Columns == {"x", "series", "y"}

----------------------------------------------------------------------------
\* Floats (float64 cells) as exact rationals; NaN is the null cell.

RECURSIVE GCD(_, _)
GCD(a, b) == IF b = 0 THEN a ELSE GCD(b, a % b)

Abs(n) == IF n < 0 THEN -n ELSE n

NaN == [null |-> TRUE, num |-> 0, den |-> 1]

\* The float n/d (d # 0), in lowest terms with a positive denominator.
Float(n, d) ==
    LET g == GCD(Abs(n), Abs(d))
        s == IF d < 0 THEN -1 ELSE 1
    IN  [null |-> FALSE, num |-> (s * n) \div g, den |-> (s * d) \div g]

\* float(i): an integer literal or cell interpreted as float64.
IntToFloat(i) == Float(i, 1)

\* IEEE division a / b of float64 cells: NaN if either is NaN.  No divisor of
\* the model is zero: XVals and YVals exclude it, and transform_df_data
\* rejects a zero scaling constant before dividing.
FloatDiv(a, b) ==
    IF a.null \/ b.null \/ b.num = 0 THEN NaN
    ELSE Float(a.num * b.den, a.den * b.num)

----------------------------------------------------------------------------
\* Rows and dataframes.

Rows == [x : XVals, series : SeriesVals, y : {NaN} \cup {IntToFloat(v) : v \in YVals}]

\* The dataframes PerflogHandler.read_all_perflogs can return: any rows in any order.
Tables == UNION {[1..n -> Rows] : n \in 0..MaxRows}

\* Text values are ordered alphabetically.
SeriesOrd(s) == IF s = "A" THEN 1 ELSE IF s = "B" THEN 2 ELSE 3

Indices(df) == 1..Len(df)

\* df[mask]: the rows the boolean mask selects, in order.
RECURSIVE Masked(_, _)
Masked(df, mask) ==
    IF df = <<>> THEN <<>>
    ELSE (IF Head(mask) THEN <<Head(df)>> ELSE <<>>) \o Masked(Tail(df), Tail(mask))

\* The positions a mask selects.
Selected(mask) == {i \in DOMAIN mask : mask[i]}

AllTrue(df) == [i \in Indices(df) |-> TRUE]

----------------------------------------------------------------------------
\* Filter conditions: [column, operator, value].

NullLit == [kind |-> "null", i |-> 0, s |-> ""]
IntLit(n) == [kind |-> "int", i |-> n, s |-> ""]
StrLit(t) == [kind |-> "str", i |-> 0, s |-> t]

Cond(c, o, v) == [column |-> c, op |-> o, value |-> v]

\* The keys of the operator lookup dictionary.
op_lookup == {"==", "!=", "<", ">", "<=", ">="}

\* operator(a, b) from the sign of a - b (-1, 0 or 1).
ApplyOp(o, sign) ==
    CASE o = "==" -> sign = 0
      [] o = "!=" -> sign # 0
      [] o = "<"  -> sign < 0
      [] o = ">"  -> sign > 0
      [] o = "<=" -> sign <= 0
      [] OTHER    -> sign >= 0

Sign(n) == IF n < 0 THEN -1 ELSE IF n = 0 THEN 0 ELSE 1

\* operator(cell, value) on a float64 column: every comparison with NaN is
\* False except !=, which is True.
FloatCompare(o, cell, v) ==
    IF cell.null THEN o = "!="
    ELSE ApplyOp(o, Sign(cell.num * v.den - v.num * cell.den))

\* The dtypes of the columns once apply_df_types has run.
CanonicalDtypes == [x |-> "Int64", series |-> "object", y |-> "float64"]

\* Whether pd.Series(value, dtype=...) accepts the literal.
LiteralConverts(dtype, value) ==
    CASE dtype = "float64" -> value.kind = "int"
      [] dtype = "Int64"   -> value.kind = "int"
      [] OTHER             -> TRUE

\* isnull() of one cell of a column.
CellIsNull(row, column) == IF column = "y" THEN row.y.null ELSE FALSE

\* operator(df[column], value) for one row, value already of the column's dtype.
CellCompare(row, column, o, value) ==
    CASE column = "x" -> ApplyOp(o, Sign(row.x - value.i))
      [] column = "y" -> FloatCompare(o, row.y, IntToFloat(value.i))
      [] OTHER        -> ApplyOp(o, Sign(SeriesOrd(row.series) - SeriesOrd(value.s)))

\* Variant of row_filter with isnull() and notnull() exchanged.
row_filter_null_swapped(filter, df) ==
    IF filter.op \notin op_lookup THEN [err |-> "KeyError", mask |-> <<>>]
    ELSE IF filter.value.kind = "null"
    THEN [err |-> "none",
          mask |-> [i \in Indices(df) |->
                      IF filter.op = "==" THEN ~CellIsNull(df[i], filter.column)
                      ELSE CellIsNull(df[i], filter.column)]]
    ELSE IF ~LiteralConverts(CanonicalDtypes[filter.column], filter.value)
    THEN [err |-> "ValueError", mask |-> <<>>]
    ELSE [err |-> "none",
          mask |-> [i \in Indices(df) |->
                      CellCompare(df[i], filter.column, filter.op, filter.value)]]

\* row_filter: the mask of one condition, or the error it raises.
row_filter(filter, df) ==
    IF filter.op \notin op_lookup THEN [err |-> "KeyError", mask |-> <<>>]
    ELSE IF filter.value.kind = "null"
    THEN [err |-> "none",
          mask |-> [i \in Indices(df) |->
                      IF filter.op = "==" THEN CellIsNull(df[i], filter.column)
                      ELSE ~CellIsNull(df[i], filter.column)]]
    ELSE IF ~LiteralConverts(CanonicalDtypes[filter.column], filter.value)
    THEN [err |-> "ValueError", mask |-> <<>>]
    ELSE [err |-> "none",
          mask |-> [i \in Indices(df) |->
                      CellCompare(df[i], filter.column, filter.op, filter.value)]]

----------------------------------------------------------------------------
\* filter_df.

\* The error of the first condition of the list that raises, or "none".
RECURSIVE FirstError(_, _)
FirstError(filters, df) ==
    IF filters = <<>> THEN "none"
    ELSE IF row_filter(Head(filters), df).err # "none"
         THEN row_filter(Head(filters), df).err
         ELSE FirstError(Tail(filters), df)

\* reduce(op.and_, ...) and reduce(op.or_, ...) over the conditions' masks.
ReduceAnd(filters, df) ==
    LET masks == [k \in DOMAIN filters |-> row_filter(filters[k], df).mask]
    IN  [i \in Indices(df) |-> \A k \in DOMAIN filters : masks[k][i]]

ReduceOr(filters, df) ==
    LET masks == [k \in DOMAIN filters |-> row_filter(filters[k], df).mask]
    IN  [i \in Indices(df) |-> \E k \in DOMAIN filters : masks[k][i]]

MaskAnd(m1, m2) == [i \in DOMAIN m1 |-> m1[i] /\ m2[i]]

\* The mask filter_df composes, before its emptiness check.
ComposeMask(df, and_filters, or_filters, series_filters) ==
    LET m0 == AllTrue(df)
        m1 == IF and_filters # <<>> THEN ReduceAnd(and_filters, df) ELSE m0
        m2 == IF or_filters # <<>> THEN MaskAnd(m1, ReduceOr(or_filters, df)) ELSE m1
    IN  IF series_filters # <<>> THEN MaskAnd(m2, ReduceOr(series_filters, df)) ELSE m2

\* Variant of filter_df whose series filters replace the mask (= for &=).
filter_df_series_overwrites(df, and_filters, or_filters, series_filters) ==
    LET e1 == FirstError(and_filters, df)
        e2 == FirstError(or_filters, df)
        e3 == FirstError(series_filters, df)
        mask == IF series_filters # <<>> THEN ReduceOr(series_filters, df)
                ELSE ComposeMask(df, and_filters, or_filters, series_filters)
    IN  IF e1 # "none" THEN [err |-> e1, mask |-> <<>>]
        ELSE IF e2 # "none" THEN [err |-> e2, mask |-> <<>>]
        ELSE IF e3 # "none" THEN [err |-> e3, mask |-> <<>>]
        ELSE IF Masked(df, mask) = <<>> THEN [err |-> "EmptyDataError", mask |-> <<>>]
        ELSE [err |-> "none", mask |-> mask]

\* Variant of filter_df without the emptiness check of lines 160-161.
filter_df_no_empty_check(df, and_filters, or_filters, series_filters) ==
    LET e1 == FirstError(and_filters, df)
        e2 == FirstError(or_filters, df)
        e3 == FirstError(series_filters, df)
    IN  IF e1 # "none" THEN [err |-> e1, mask |-> <<>>]
        ELSE IF e2 # "none" THEN [err |-> e2, mask |-> <<>>]
        ELSE IF e3 # "none" THEN [err |-> e3, mask |-> <<>>]
        ELSE [err |-> "none",
              mask |-> ComposeMask(df, and_filters, or_filters, series_filters)]

\* filter_df: the composed mask, or the error raised (by a condition, in the
\* order the groups are evaluated, or by the emptiness check).
filter_df(df, and_filters, or_filters, series_filters) ==
    LET e1 == FirstError(and_filters, df)
        e2 == FirstError(or_filters, df)
        e3 == FirstError(series_filters, df)
        mask == ComposeMask(df, and_filters, or_filters, series_filters)
    IN  IF e1 # "none" THEN [err |-> e1, mask |-> <<>>]
        ELSE IF e2 # "none" THEN [err |-> e2, mask |-> <<>>]
        ELSE IF e3 # "none" THEN [err |-> e3, mask |-> <<>>]
        ELSE IF Masked(df, mask) = <<>> THEN [err |-> "EmptyDataError", mask |-> <<>>]
        ELSE [err |-> "none", mask |-> mask]

----------------------------------------------------------------------------
\* check_filtered_row_count.

\* series_columns.count(c)
Count(series_columns, c) ==
    Cardinality({k \in DOMAIN series_columns : series_columns[k] = c})

\* reduce(op.mul, ...) over the values of a dict keyed by the names in `names`.
RECURSIVE ProductOver(_, _)
ProductOver(names, series_columns) ==
    IF names = {} THEN 1
    ELSE LET c == CHOOSE n \in names : TRUE
         IN  Count(series_columns, c) * ProductOver(names \ {c}, series_columns)

series_combinations(series_columns) ==
    ProductOver({series_columns[k] : k \in DOMAIN series_columns}, series_columns)

num_filtered_rows(df, mask) == Len(Masked(df, mask))

XValuesOf(df, mask) == {df[i].x : i \in Selected(mask)}

\* Variant of num_x_data_points that leaves out series_combinations.
num_x_data_points_without_multiplicity(df, mask, series_columns) ==
    Cardinality(XValuesOf(df, mask))

num_x_data_points(df, mask, series_columns) ==
    series_combinations(series_columns) * Cardinality(XValuesOf(df, mask))

\* Variant of check_filtered_row_count that compares with >= for >.
check_filtered_row_count_ge(df, mask, series_columns) ==
    IF num_filtered_rows(df, mask) >= num_x_data_points(df, mask, series_columns)
    THEN "RuntimeError" ELSE "none"

\* check_filtered_row_count: the error raised, or "none".
check_filtered_row_count(df, mask, series_columns) ==
    IF num_filtered_rows(df, mask) > num_x_data_points(df, mask, series_columns)
    THEN "RuntimeError" ELSE "none"

----------------------------------------------------------------------------
\* transform_df_data and transform_axis.

\* y_axis["scaling"]: absent (kind "none"), {"custom": c} or {"column": {...}}.
\* series = NoSeries stands for an absent "series" key; x_value = 0 for an
\* absent (or falsy) "x_value".
NoSeries == -1
NoScaling == [kind |-> "none", custom |-> 0, name |-> "", series |-> NoSeries, x_value |-> 0]
CustomScaling(c) == [kind |-> "custom", custom |-> c, name |-> "", series |-> NoSeries, x_value |-> 0]
ColumnScaling(n, s, xv) == [kind |-> "column", custom |-> 0, name |-> n, series |-> s, x_value |-> xv]

\* An optional mask argument (None or a bool series).
None == [some |-> FALSE, mask |-> <<>>]
Some(m) == [some |-> TRUE, mask |-> m]

\* df[name] as floats; the text column has no numeric values.
ColumnValues(df, name) ==
    [i \in Indices(df) |->
        CASE name = "y" -> df[i].y
          [] name = "x" -> IntToFloat(df[i].x)
          [] OTHER      -> NaN]

is_numeric_dtype(name) == CanonicalDtypes[name] \in {"Int64", "float64"}

\* The position of row i among the rows a mask selects.
Rank(mask, i) == Cardinality({k \in Selected(mask) : k <= i})

SetY(row, v) == [row EXCEPT !.y = v]

\* Variant of ScaleByColumn that always divides by the first baseline value.
ScaleByColumnBroadcastFirst(df, mask, scaling_column, scaling_mask) ==
    LET vals == Masked(scaling_column, scaling_mask)
    IN  IF Len(vals) >= 1
        THEN [err |-> "none",
              df |-> [i \in Indices(df) |->
                        IF mask[i] THEN SetY(df[i], FloatDiv(df[i].y, vals[1])) ELSE df[i]]]
        ELSE [err |-> "ValueError", df |-> df]

\* Scale by column: the write-back of line 330, or the error of the array
\* division / assignment when the lengths do not fit.
ScaleByColumn(df, mask, scaling_column, scaling_mask) ==
    LET vals == Masked(scaling_column, scaling_mask)
        n == Cardinality(Selected(mask))
    IN  IF Len(vals) = 1
        THEN [err |-> "none",
              df |-> [i \in Indices(df) |->
                        IF mask[i] THEN SetY(df[i], FloatDiv(df[i].y, vals[1])) ELSE df[i]]]
        ELSE IF Len(vals) = n
        THEN [err |-> "none",
              df |-> [i \in Indices(df) |->
                        IF mask[i] THEN SetY(df[i], FloatDiv(df[i].y, vals[Rank(mask, i)]))
                        ELSE df[i]]]
        ELSE [err |-> "ValueError", df |-> df]

\* transform_axis: the dataframe after the call, the scaling series mask
\* (which line 321 narrows in place when it is the scaling mask), or the error.
transform_axis(df, mask, scaling, scaling_column, scaling_series_mask, scaling_x_value_mask) ==
    IF scaling.kind = "column"
    THEN IF ~is_numeric_dtype("y") \/ ~is_numeric_dtype(scaling.name)
         THEN [err |-> "TypeError", df |-> df, ssm |-> scaling_series_mask]
         ELSE LET sm0 == IF scaling_series_mask.some THEN scaling_series_mask.mask ELSE mask
                  sm  == IF scaling_x_value_mask.some
                         THEN MaskAnd(sm0, scaling_x_value_mask.mask) ELSE sm0
                  ssm == IF scaling_series_mask.some THEN Some(sm) ELSE None
                  r   == ScaleByColumn(df, mask, scaling_column, sm)
              IN  [err |-> r.err, df |-> r.df, ssm |-> ssm]
    ELSE IF scaling.custom # 0
    THEN [err |-> "none",
          df |-> [i \in Indices(df) |->
                    IF mask[i] THEN SetY(df[i], FloatDiv(df[i].y, IntToFloat(scaling.custom)))
                    ELSE df[i]],
          ssm |-> scaling_series_mask]
    ELSE [err |-> "none", df |-> df, ssm |-> scaling_series_mask]

\* Variant of ScalingColumn without the copy: the column being written.
ScalingColumnNoCopy(df0, df, name) == ColumnValues(df, name)

\* The scaling column transform_axis divides by: the copy taken at line 211
\* (the column of the dataframe as transform_df_data received it, df0), not
\* the column of the dataframe being written (df).
ScalingColumn(df0, df, name) == ColumnValues(df0, name)

\* The loop of lines 228-232 over the remaining series filters.
RECURSIVE TransformPerSeries(_, _, _, _, _, _, _)
TransformPerSeries(filters, df0, df, mask, scaling, ssm, sxm) ==
    IF filters = <<>> THEN [err |-> "none", df |-> df]
    ELSE LET m == row_filter(Head(filters), df).mask
             r == transform_axis(df, MaskAnd(mask, m), scaling,
                                 ScalingColumn(df0, df, scaling.name), ssm, sxm)
         IN  IF r.err # "none" THEN [err |-> r.err, df |-> r.df]
             ELSE TransformPerSeries(Tail(filters), df0, r.df, mask, scaling, r.ssm, sxm)

\* Variant of ApplyTransformation that ignores the mask.
TransformAllRows(series_filters, df, mask, scaling, ssm, sxm) ==
    IF series_filters # <<>>
    THEN TransformPerSeries(series_filters, df, df, AllTrue(df), scaling, ssm, sxm)
    ELSE LET r == transform_axis(df, AllTrue(df), scaling,
                                 ScalingColumn(df, df, scaling.name), ssm, sxm)
         IN  [err |-> r.err, df |-> r.df]

\* Lines 226-237: per series filter, or once for the whole mask.
ApplyTransformation(series_filters, df, mask, scaling, ssm, sxm) ==
    IF series_filters # <<>>
    THEN TransformPerSeries(series_filters, df, df, mask, scaling, ssm, sxm)
    ELSE LET r == transform_axis(df, mask, scaling,
                                 ScalingColumn(df, df, scaling.name), ssm, sxm)
         IN  [err |-> r.err, df |-> r.df]

\* transform_df_data: the dataframe after the call and the error raised, if any.
transform_df_data(df, series_filters, mask, scaling) ==
    IF scaling.kind = "none" THEN [err |-> "none", df |-> df]
    ELSE IF scaling.kind = "column"
    THEN IF scaling.series # NoSeries /\ scaling.series + 1 > Len(series_filters)
         THEN [err |-> "IndexError", df |-> df]
         ELSE LET ssm == IF scaling.series # NoSeries
                         THEN Some(row_filter(series_filters[scaling.series + 1], df).mask)
                         ELSE None
                  sxm == IF scaling.x_value # 0
                         THEN Some([i \in Indices(df) |-> df[i].x = scaling.x_value])
                         ELSE None
              IN  ApplyTransformation(series_filters, df, mask, scaling, ssm, sxm)
    ELSE IF scaling.custom = 0 THEN [err |-> "RuntimeError", df |-> df]
    ELSE ApplyTransformation(series_filters, df, mask, scaling, None, None)

----------------------------------------------------------------------------
\* apply_df_types and sort_df.

\* The dtypes of the dataframe read_all_perflogs returns.
RawDtypes == [x |-> "int64", series |-> "object", y |-> "float64"]

\* column_types[col] for a declared type token ("" stands for no entry).
ConversionType(token) ==
    CASE token = "str"      -> "object"
      [] token = "float"    -> "float64"
      [] token = "int"      -> "Int64"
      [] token = "datetime" -> "datetime64[ns]"
      [] OTHER              -> "unsupported"

\* check_df_columns: KeyError when a configured column is not in the dataframe.
check_df_columns(all_columns) ==
    IF \E k \in DOMAIN all_columns : all_columns[k] \notin Columns
    THEN "KeyError" ELSE "none"

\* The loop of apply_df_types over the remaining columns.
RECURSIVE ApplyTypes(_, _, _)
ApplyTypes(cols, column_types, dtypes) ==
    IF cols = <<>> THEN [err |-> "none", dtypes |-> dtypes]
    ELSE LET col == Head(cols)
         IN  IF column_types[col] = "" THEN [err |-> "KeyError", dtypes |-> dtypes]
             ELSE IF ConversionType(column_types[col]) = "unsupported"
             THEN [err |-> "RuntimeError", dtypes |-> dtypes]
             ELSE ApplyTypes(Tail(cols), column_types,
                             [dtypes EXCEPT ![col] = ConversionType(column_types[col])])

apply_df_types(all_columns, column_types, dtypes) ==
    IF check_df_columns(all_columns) # "none"
    THEN [err |-> "KeyError", dtypes |-> dtypes]
    ELSE ApplyTypes(all_columns, column_types, dtypes)

\* The value a row is sorted by in a column.
SortKey(row, col) == IF col = "x" THEN row.x ELSE SeriesOrd(row.series)

\* sorting_columns of sort_df.
sorting_columns(series_columns) ==
    IF series_columns # <<>> THEN <<"x", series_columns[1]>> ELSE <<"x">>

\* row a sorts strictly before row b.
RowLess(a, b, cols) ==
    \E k \in DOMAIN cols :
        /\ SortKey(a, cols[k]) < SortKey(b, cols[k])
        /\ \A j \in 1..(k - 1) : SortKey(a, cols[j]) = SortKey(b, cols[j])

IndexPermutations(n) == {p \in [1..n -> 1..n] : \A i, j \in 1..n : p[i] = p[j] => i = j}

\* sort_df: the orders sort_values can leave the rows in.  Equal rows keep
\* their order when several columns are sorted by; a single column is sorted
\* with the default quicksort, which leaves the order of equal keys open.
sort_df(df, series_columns) ==
    LET cols == sorting_columns(series_columns)
        n == Len(df)
    IN  {[i \in 1..n |-> df[p[i]]] : p \in
           {q \in IndexPermutations(n) :
              \A i, j \in 1..n :
                 i < j => /\ ~RowLess(df[q[j]], df[q[i]], cols)
                          /\ (Len(cols) > 1 /\ ~RowLess(df[q[i]], df[q[j]], cols)
                                => q[i] < q[j])}}

----------------------------------------------------------------------------
\* The configurations the pipeline is run with.

AllColumnsChoices == {<<"x", "series", "y">>, <<"x", "series", "y", "z">>}

ColumnTypesChoices ==
    {[x |-> "int", series |-> "str", y |-> "float"],
     [x |-> "int", series |-> "str", y |-> "double precision"],
     [x |-> "int", series |-> "str", y |-> ""]}

SeriesColumnsChoices ==
    {<<>>, <<"series", "series">>, <<"series", "x", "series">>}

\* The filter groups of a configuration: and_filters, or_filters, series_filters.
AndFiltersChoices ==
    {<<>>,
     <<Cond("y", "!=", NullLit)>>,
     <<Cond("x", ">=", IntLit(2)), Cond("y", "!=", IntLit(2))>>,
     <<Cond("y", "==", NullLit)>>}

OrFiltersChoices ==
    {<<>>,
     <<Cond("x", "==", IntLit(1)), Cond("series", "==", StrLit("B"))>>}

SeriesFiltersChoices ==
    {<<>>,
     <<Cond("series", "==", StrLit("A"))>>,
     <<Cond("series", "==", StrLit("A")), Cond("series", "==", StrLit("B"))>>,
     <<Cond("series", "==", StrLit("A")), Cond("series", "==", StrLit("A"))>>}

\* Filter groups with a condition row_filter rejects: an unknown comparison
\* operator, a literal that is not of the column's type.
InvalidFilterChoices ==
    {<< <<Cond("x", "~", IntLit(1))>>, <<>>, <<>> >>,
     << <<Cond("y", "!=", NullLit)>>,
        <<Cond("y", "<", IntLit(4)), Cond("y", "==", StrLit("abc"))>>,
        <<Cond("series", "==", StrLit("A"))>> >>,
     << <<>>, <<>>,
        <<Cond("series", "==", StrLit("A")), Cond("series", "=", StrLit("B"))>> >>}

FilterChoices ==
    (AndFiltersChoices \X OrFiltersChoices \X SeriesFiltersChoices)
    \cup InvalidFilterChoices

ScalingChoices ==
    {NoScaling, CustomScaling(0), CustomScaling(2),
     ColumnScaling("series", NoSeries, 0), ColumnScaling("x", 0, 0)}
    \cup {ColumnScaling("y", s, xv) : s \in {NoSeries, 0}, xv \in {0, 1}}

PlotColumnsChoices == {<<"x", "y">>}

\* df[plot_columns][mask]
Project(df, mask, plot_columns) ==
    Masked([i \in Indices(df) |->
              [c \in {plot_columns[k] : k \in DOMAIN plot_columns} |-> df[i][c]]], mask)

----------------------------------------------------------------------------
\* The run of main: run_post_processing stage by stage.

VARIABLES
    pc,              \* the stage run_post_processing is about to run
    df,              \* self.df
    dtypes,          \* the dtypes of self.df's columns
    series_columns,  \* config.series_columns, once read
    series_filters,  \* config.series_filters, once read
    mask,            \* the mask filter_df returned
    args,            \* the other arguments of the stage that ran last
    df_before,       \* self.df as transform_df_data received it
    err,             \* the exception raised, "none" if none
    stages,          \* the stages that have run, in order
    plotted,         \* the tables handed to plot_generic
    returned,        \* the tables run_post_processing returned
    reported         \* whether main's except clause has reported the error

vars == <<pc, df, dtypes, series_columns, series_filters, mask, args, df_before,
          err, stages, plotted, returned, reported>>

NoArgs == [stage |-> "none"]

Init ==
    /\ pc = "read_all_perflogs"
    /\ df = <<>>
    /\ dtypes = RawDtypes
    /\ series_columns = <<>>
    /\ series_filters = <<>>
    /\ mask = <<>>
    /\ args = NoArgs
    /\ df_before = <<>>
    /\ err = "none"
    /\ stages = <<>>
    /\ plotted = <<>>
    /\ returned = <<>>
    /\ reported = FALSE

\* Variant of StageEnds in which the run goes on after an exception.
StageEndsIgnoringError(stage, e, next) ==
    /\ stages' = Append(stages, stage)
    /\ err' = e
    /\ pc' = next
    /\ reported' = FALSE

\* A stage ends: with the next stage to run, or with its exception, which
\* leaves run_post_processing for main's except clause; main reports the
\* error ("Post-processing stopped") and ends.
StageEnds(stage, e, next) ==
    /\ stages' = Append(stages, stage)
    /\ err' = e
    /\ pc' = IF e = "none" THEN next ELSE "stopped"
    /\ reported' = (e # "none")

ReadPerflogs ==
    /\ pc = "read_all_perflogs"
    /\ \E t \in Tables : df' = t
    /\ pc' = "apply_df_types"
    /\ UNCHANGED <<dtypes, series_columns, series_filters, mask, args, df_before,
                   err, stages, plotted, returned, reported>>

ApplyDfTypes ==
    /\ pc = "apply_df_types"
    /\ \E all_columns \in AllColumnsChoices, column_types \in ColumnTypesChoices :
         LET r == apply_df_types(all_columns, column_types, dtypes)
         IN  /\ dtypes' = r.dtypes
             /\ StageEnds("apply_df_types", r.err, "sort_df")
    /\ UNCHANGED <<df, series_columns, series_filters, mask, args, df_before,
                   plotted, returned>>

SortDf ==
    /\ pc = "sort_df"
    /\ \E sc \in SeriesColumnsChoices :
         /\ series_columns' = sc
         /\ df' \in sort_df(df, sc)
    /\ StageEnds("sort_df", "none", "filter_df")
    /\ UNCHANGED <<dtypes, series_filters, mask, args, df_before,
                   plotted, returned>>

FilterDf ==
    /\ pc = "filter_df"
    /\ \E f \in FilterChoices :
         LET r == filter_df(df, f[1], f[2], f[3])
         IN  /\ series_filters' = f[3]
             /\ args' = [stage |-> "filter_df", and_filters |-> f[1], or_filters |-> f[2]]
             /\ mask' = r.mask
             /\ StageEnds("filter_df", r.err, "check_filtered_row_count")
    /\ UNCHANGED <<df, dtypes, series_columns, df_before, plotted, returned>>

CheckFilteredRowCount ==
    /\ pc = "check_filtered_row_count"
    /\ args' = NoArgs
    /\ StageEnds("check_filtered_row_count",
                 check_filtered_row_count(df, mask, series_columns), "transform_df_data")
    /\ UNCHANGED <<df, dtypes, series_columns, series_filters, mask, df_before,
                   plotted, returned>>

TransformDfData ==
    /\ pc = "transform_df_data"
    /\ \E scaling \in ScalingChoices :
         LET r == transform_df_data(df, series_filters, mask, scaling)
         IN  /\ args' = [stage |-> "transform_df_data", scaling |-> scaling]
             /\ df_before' = df
             /\ df' = r.df
             /\ StageEnds("transform_df_data", r.err, "plot_generic")
    /\ UNCHANGED <<dtypes, series_columns, series_filters, mask,
                   plotted, returned>>

PlotGeneric ==
    /\ pc = "plot_generic"
    /\ \E plot_columns \in PlotColumnsChoices :
         /\ args' = [stage |-> "plot_generic", plot_columns |-> plot_columns]
         /\ plotted' = Append(plotted, Project(df, mask, plot_columns))
    /\ StageEnds("plot_generic", "none", "return")
    /\ UNCHANGED <<df, dtypes, series_columns, series_filters, mask, df_before,
                   returned>>

Return ==
    /\ pc = "return"
    /\ returned' = Append(returned, Project(df, mask, args.plot_columns))
    /\ pc' = "done"
    /\ UNCHANGED <<df, dtypes, series_columns, series_filters, mask, args, df_before,
                   err, stages, plotted, reported>>

Next ==
    \/ ReadPerflogs
    \/ ApplyDfTypes
    \/ SortDf
    \/ FilterDf
    \/ CheckFilteredRowCount
    \/ TransformDfData
    \/ PlotGeneric
    \/ Return

Spec == Init /\ [][Next]_vars

----------------------------------------------------------------------------
\* Vocabulary of the properties.

LastStage == IF stages = <<>> THEN "none" ELSE stages[Len(stages)]

AfterFilter == LastStage = "filter_df"
AfterCheck == LastStage = "check_filtered_row_count"
AfterTransform == LastStage = "transform_df_data"

\* Row `row` satisfies condition `cond`.
Satisfies(row, cond) ==
    IF cond.value.kind = "null"
    THEN (cond.op = "==") <=> CellIsNull(row, cond.column)
    ELSE CellCompare(row, cond.column, cond.op, cond.value)

\* A condition row_filter evaluates without raising.
CondValid(cond) ==
    /\ cond.op \in op_lookup
    /\ cond.value.kind # "null" =>
         LiteralConverts(CanonicalDtypes[cond.column], cond.value)

AllCondsValid(filters) == \A k \in DOMAIN filters : CondValid(filters[k])

\* AND(A) /\ OR(B) /\ OR(C) for one row, an empty group acting as true.
RowSelected(row, A, B, C) ==
    /\ \A k \in DOMAIN A : Satisfies(row, A[k])
    /\ B # <<>> => \E k \in DOMAIN B : Satisfies(row, B[k])
    /\ C # <<>> => \E k \in DOMAIN C : Satisfies(row, C[k])

\* C1: whenever filter_df returns, its mask selects exactly the rows that
\* satisfy every and_filters condition, at least one or_filters condition if
\* there is one and at least one series_filters condition if there is one.
MaskIsAndOrSeriesComposition ==
    (AfterFilter /\ err = "none") =>
        /\ Len(mask) = Len(df)
        /\ \A i \in Indices(df) :
             mask[i] <=> RowSelected(df[i], args.and_filters, args.or_filters,
                                     series_filters)

\* filter_df returned a mask composed of all three groups, selecting some
\* rows and rejecting others.
WitnessThreeGroupMask ==
    /\ AfterFilter /\ err = "none"
    /\ args.and_filters # <<>> /\ args.or_filters # <<>> /\ series_filters # <<>>
    /\ \E i, j \in Indices(df) : mask[i] /\ ~mask[j]

\* C2: filter_df never returns a mask that selects no row: when no row
\* satisfies the composed condition it raises the empty-result error, and the
\* mask the later stages receive selects at least one row.
FilterNeverReturnsEmptyMask ==
    /\ (AfterFilter /\ err = "none") => Selected(mask) # {}
    /\ pc \in {"check_filtered_row_count", "transform_df_data", "plot_generic",
               "return", "done"} => Selected(mask) # {}
    /\ (/\ AfterFilter
        /\ AllCondsValid(args.and_filters)
        /\ AllCondsValid(args.or_filters)
        /\ AllCondsValid(series_filters)
        /\ \A i \in Indices(df) :
             ~RowSelected(df[i], args.and_filters, args.or_filters, series_filters))
       => err = "EmptyDataError"

\* filter_df raised the empty-result error on a table that has rows.
WitnessEmptyResultError ==
    AfterFilter /\ err = "EmptyDataError" /\ df # <<>>

----------------------------------------------------------------------------
\* Scaling: the groups transform_df_data applies the transformation to, and
\* the baseline values of each.

Scaling == args.scaling

\* The rows of the mask that series filter k selects; the whole mask when
\* there are no series filters.
GroupMask(k) ==
    IF series_filters = <<>> THEN mask
    ELSE [i \in Indices(df_before) |->
            mask[i] /\ Satisfies(df_before[i], series_filters[k])]

Groups == IF series_filters = <<>> THEN {1} ELSE DOMAIN series_filters

GroupsOf(i) == {k \in Groups : GroupMask(k)[i]}

\* The rows the baseline of group k is read from: the scaling series (or the
\* group itself), narrowed to the scaling x value.
BaselineMask(k) ==
    [i \in Indices(df_before) |->
        /\ IF Scaling.series # NoSeries
           THEN Satisfies(df_before[i], series_filters[Scaling.series + 1])
           ELSE GroupMask(k)[i]
        /\ Scaling.x_value # 0 => df_before[i].x = Scaling.x_value]

\* The baseline values of group k, as they were before any group was scaled.
Baseline(k) == Masked(ColumnValues(df_before, Scaling.name), BaselineMask(k))

GroupSize(k) == Cardinality(Selected(GroupMask(k)))

BaselineFits(k) == Len(Baseline(k)) = 1 \/ Len(Baseline(k)) = GroupSize(k)

\* The divisor of row i of group k.
Divisor(k, i) ==
    IF Len(Baseline(k)) = 1 THEN Baseline(k)[1] ELSE Baseline(k)[Rank(GroupMask(k), i)]

ColumnScalingApplies ==
    /\ AfterTransform
    /\ Scaling.kind = "column"
    /\ is_numeric_dtype(Scaling.name)
    /\ Scaling.series # NoSeries => Scaling.series < Len(series_filters)

SameRowsExceptY ==
    /\ Len(df) = Len(df_before)
    /\ \A i \in Indices(df) :
         df[i].x = df_before[i].x /\ df[i].series = df_before[i].series

\* C3 as stated: with constant scaling every masked row ends with its
\* original y divided by the constant exactly once, whatever the series
\* filters are, and the rows keep their order.
ConstantScalingDividesOnce ==
    (AfterTransform /\ Scaling.kind = "custom" /\ Scaling.custom # 0) =>
        /\ err = "none"
        /\ SameRowsExceptY
        /\ \A i \in Indices(df) :
             mask[i] => df[i].y = FloatDiv(df_before[i].y, IntToFloat(Scaling.custom))

\* C4: in baseline-column scaling a group whose baseline has exactly one
\* value is divided by that value, a group whose baseline has as many values
\* as the group has rows is divided elementwise, and any other number of
\* baseline values makes the operation fail.
BaselineCardinalityDecidesScaling ==
    ColumnScalingApplies =>
        /\ err = "none" <=> \A k \in Groups : BaselineFits(k)
        /\ err # "none" => err = "ValueError"
        /\ err = "none" =>
             \A i \in Indices(df) : \A k \in Groups :
                GroupsOf(i) = {k} =>
                   df[i].y = FloatDiv(df_before[i].y, Divisor(k, i))

\* A first group was scaled by its single baseline value and a later group,
\* whose baseline has no value, made the operation fail.
WitnessBaselineMismatchAfterBroadcast ==
    /\ ColumnScalingApplies
    /\ err = "ValueError"
    /\ df # df_before
    /\ \E k \in Groups : Len(Baseline(k)) = 1 /\ GroupSize(k) > 1
    /\ \E k \in Groups : Len(Baseline(k)) = 0 /\ GroupSize(k) > 0

\* C7: transform_df_data changes nothing but the y values of the rows the
\* mask selects, and nothing at all when no scaling is configured.
TransformChangesOnlyMaskedY ==
    AfterTransform =>
        /\ SameRowsExceptY
        /\ \A i \in Indices(df) : ~mask[i] => df[i].y = df_before[i].y
        /\ Scaling.kind = "none" => df = df_before

\* A scaling changed a selected row of a table that also has an unselected
\* row with a value.
WitnessScaledBesideUnmaskedRow ==
    /\ AfterTransform /\ err = "none"
    /\ \E i, j \in Indices(df) :
         /\ mask[i] /\ df[i].y # df_before[i].y
         /\ ~mask[j] /\ ~df[j].y.null

RECURSIVE Reverse(_)
Reverse(seq) == IF seq = <<>> THEN <<>> ELSE Append(Reverse(Tail(seq)), Head(seq))

\* The scaling whose series index names, in the reversed series filters, the
\* filter it names in series_filters.
ReversedScaling ==
    [Scaling EXCEPT !.series =
        IF Scaling.series = NoSeries THEN NoSeries
        ELSE Len(series_filters) - 1 - Scaling.series]

\* C10: in baseline-column scaling with series filters the divisors are the
\* baseline column's values from before any group was scaled, also when the
\* baseline column is the y column itself, so the result is the same for the
\* series filters in the opposite order.
BaselineIsSnapshot ==
    (ColumnScalingApplies /\ Scaling.name = "y" /\ series_filters # <<>> /\ err = "none") =>
        /\ \A i \in Indices(df) : \A k \in Groups :
              GroupsOf(i) = {k} =>
                 df[i].y = FloatDiv(df_before[i].y, Divisor(k, i))
        /\ LET r == transform_df_data(df_before, Reverse(series_filters), mask,
                                      ReversedScaling)
           IN  r.err = "none" /\ r.df = df

\* The y column was scaled by itself: the first series group by its own
\* value, then the second group by the first group's original value.
WitnessSelfBaselineTwoGroups ==
    /\ ColumnScalingApplies /\ err = "none"
    /\ Scaling.name = "y" /\ Scaling.series = 0
    /\ Len(series_filters) = 2 /\ series_filters[1] # series_filters[2]
    /\ \E i, j \in Indices(df) :
         /\ GroupsOf(i) = {1} /\ df[i].y # df_before[i].y
         /\ GroupsOf(j) = {2} /\ df[j].y # df_before[j].y

----------------------------------------------------------------------------
\* Row-count validation.

MaskedSeriesValues == {df[i].series : i \in Selected(mask)}
MaskedXValues == {df[i].x : i \in Selected(mask)}
MaskedRowCount == Cardinality(Selected(mask))

\* The grid of the masked rows: distinct series values times distinct x values.
GridSize == Cardinality(MaskedSeriesValues) * Cardinality(MaskedXValues)

\* The product, over the distinct names of series_columns, of the number of
\* times each occurs: the number of ways to pick one occurrence of each name.
MultiplicityProduct ==
    LET names == {series_columns[k] : k \in DOMAIN series_columns}
    IN  Cardinality({f \in [names -> DOMAIN series_columns] :
                        \A n \in names : series_columns[f[n]] = n})

ExpectedRowCount == MultiplicityProduct * Cardinality(MaskedXValues)

\* C5 as stated: with S distinct series values and X distinct x values among
\* the masked rows, S*X masked rows pass and S*X + 1 masked rows raise,
\* reporting S*X + 1 rows against S*X expected.
GridOfSeriesValuesDecidesCheck ==
    AfterCheck =>
        /\ MaskedRowCount = GridSize => err = "none"
        /\ MaskedRowCount = GridSize + 1 =>
              /\ err = "RuntimeError"
              /\ num_filtered_rows(df, mask) = GridSize + 1
              /\ num_x_data_points(df, mask, series_columns) = GridSize

\* C5, amended: the same, for a series_columns list whose multiplicity
\* product equals the number S of distinct series values among the masked rows.
GridDecidesCheckWhenMultiplicityIsSeriesCount ==
    (AfterCheck /\ MultiplicityProduct = Cardinality(MaskedSeriesValues)) =>
        /\ MaskedRowCount = GridSize => err = "none"
        /\ MaskedRowCount = GridSize + 1 =>
              /\ err = "RuntimeError"
              /\ num_filtered_rows(df, mask) = GridSize + 1
              /\ num_x_data_points(df, mask, series_columns) = GridSize

\* Two series values at one x value, the series column listed twice, and a
\* third masked row that repeats an (x, series) pair: the check raised.
WitnessDuplicatePairRaises ==
    /\ AfterCheck /\ err = "RuntimeError"
    /\ Cardinality(MaskedSeriesValues) = 2
    /\ MultiplicityProduct = 2
    /\ MaskedRowCount = GridSize + 1
    /\ \E i, j \in Selected(mask) :
         i # j /\ df[i].x = df[j].x /\ df[i].series = df[j].series

\* C6: check_filtered_row_count raises if and only if the masked rows are
\* more than the multiplicity product of series_columns times the number of
\* distinct masked x values, and leaves the table and the mask as they were.
CheckRaisesIffTooManyRows ==
    [][pc = "check_filtered_row_count" =>
          /\ df' = df
          /\ mask' = mask
          /\ err' # "none" <=> MaskedRowCount > ExpectedRowCount
          /\ err' # "none" => err' = "RuntimeError"]_vars

\* A mask with fewer rows than the expected grid (a missing point) passed.
WitnessMissingPointPasses ==
    /\ AfterCheck /\ err = "none"
    /\ MultiplicityProduct = 2
    /\ Cardinality(MaskedXValues) = 2
    /\ MaskedRowCount < ExpectedRowCount

----------------------------------------------------------------------------
\* Null conditions.

NullRows(column) == [i \in Indices(df) |-> column = "y" /\ df[i].y = NaN]

NotNullRows(column) == [i \in Indices(df) |-> ~(column = "y" /\ df[i].y = NaN)]

\* filter_df was called with the single condition (column, o, null).
FilteredByNullCond(column, o) ==
    /\ AfterFilter
    /\ args.and_filters = <<Cond(column, o, NullLit)>>
    /\ args.or_filters = <<>>
    /\ series_filters = <<>>

\* C9: for a null literal, == selects exactly the rows whose value is null
\* and != exactly the rows whose value is not null, so the two masks are
\* complements on every table.
NullConditionSelectsNullRows ==
    /\ \A c \in Columns :
          LET eq == row_filter(Cond(c, "==", NullLit), df)
              ne == row_filter(Cond(c, "!=", NullLit), df)
          IN  /\ eq.err = "none" /\ eq.mask = NullRows(c)
              /\ ne.err = "none" /\ ne.mask = NotNullRows(c)
              /\ \A i \in Indices(df) : eq.mask[i] <=> ~ne.mask[i]
    /\ \A c \in Columns :
          /\ (FilteredByNullCond(c, "==") /\ err = "none") => mask = NullRows(c)
          /\ (FilteredByNullCond(c, "!=") /\ err = "none") => mask = NotNullRows(c)

\* filter_df returned the mask of ("y", "==", null) on a table with a null
\* and a non-null y.
WitnessNullEqualityMask ==
    /\ FilteredByNullCond("y", "==") /\ err = "none"
    /\ \E i, j \in Indices(df) : mask[i] /\ df[i].y = NaN /\ ~mask[j] /\ df[j].y # NaN

----------------------------------------------------------------------------
\* The order of the stages.

StageOrder ==
    <<"apply_df_types", "sort_df", "filter_df", "check_filtered_row_count",
      "transform_df_data", "plot_generic">>

IsPrefix(a, b) == Len(a) <= Len(b) /\ \A k \in DOMAIN a : a[k] = b[k]

\* C8: the stages run in the fixed order; once a stage has failed no later
\* stage runs, nothing is plotted or returned, and main stops after
\* reporting the error.
StagesInOrderAndFailureStops ==
    /\ [](/\ IsPrefix(stages, StageOrder)
          /\ plotted # <<>> => (err = "none" /\ stages = StageOrder)
          /\ returned # <<>> => (err = "none" /\ plotted = returned)
          /\ err # "none" => (plotted = <<>> /\ returned = <<>>)
          /\ reported => err # "none")
    /\ [][/\ err # "none" =>
               (stages' = stages /\ df' = df /\ plotted' = plotted /\ returned' = returned)
          /\ ~reported /\ pc # "done"]_vars

\* filter_df failed after the types were applied and the rows sorted, and
\* main reported the error and stopped.
WitnessFilterFailureStops ==
    /\ pc = "stopped" /\ reported
    /\ stages = <<"apply_df_types", "sort_df", "filter_df">>
    /\ plotted = <<>> /\ returned = <<>>

=============================================================================
